---- MODULE Spec2Model ----
(***************************************************************************)
(* Model of server/content-server.py: VideoHTTPRequestHandler (do_OPTIONS, *)
(* do_GET, serve_file_with_range, handle_range_request,                    *)
(* handle_normal_request, end_headers) run by ThreadedHTTPServer, one      *)
(* handler thread per connection.                                          *)
(*                                                                         *)
(* Strings (request targets, Range header values, file names) are          *)
(* sequences of one-character strings, so that startswith / endswith /     *)
(* split / `in` / int() are computed character by character as Python      *)
(* computes them.  A body chunk is recorded by where it was read from      *)
(* (file, offset, length): the bytes of a file at an offset are fixed, so  *)
(* a body equals a slice of a file iff its chunks tile that slice in       *)
(* order.                                                                  *)
(***************************************************************************)
EXTENDS Integers, Sequences, FiniteSets, TLC

VARIABLES files, req, conn, pc, wire, fsops, local, fpos, isopen

vars == <<files, req, conn, pc, wire, fsops, local, fpos, isopen>>

(***************************************************************************)
(* Bounds of the model.                                                    *)
(***************************************************************************)
\* number of path segments of a request target
MaxSegs == 2

\* handler threads (connections) that exist at the same time
Workers == {1, 2}

(***************************************************************************)
(* Python str operations on character sequences.                           *)
(***************************************************************************)
Min(a, b) == IF a < b THEN a ELSE b

\* s[i:] with a 1-based first index
Drop(s, i) == SubSeq(s, i, Len(s))

\* s[:i-1]
Take(s, i) == SubSeq(s, 1, i - 1)

\* str.startswith
startswith(s, p) == Len(p) <= Len(s) /\ SubSeq(s, 1, Len(p)) = p

\* str.endswith
endswith(s, p) == Len(p) <= Len(s) /\ SubSeq(s, Len(s) - Len(p) + 1, Len(s)) = p

\* `p in s` for strings: p occurs as a substring of s
contains(s, p) == \E i \in 1..(Len(s) - Len(p) + 1) : SubSeq(s, i, i + Len(p) - 1) = p

\* str.find(c, from): 1-based index of the first c at or after from, 0 if none
find(s, c, from) ==
  IF \E i \in from..Len(s) : s[i] = c
  THEN CHOOSE i \in from..Len(s) : s[i] = c /\ \A j \in from..(i - 1) : s[j] # c
  ELSE 0

\* str.rfind(c): 1-based index of the last c, 0 if none
rfind(s, c) ==
  IF \E i \in 1..Len(s) : s[i] = c
  THEN CHOOSE i \in 1..Len(s) : s[i] = c /\ \A j \in (i + 1)..Len(s) : s[j] # c
  ELSE 0

\* str.lstrip(c)
RECURSIVE lstrip(_, _)
lstrip(s, c) == IF s # <<>> /\ Head(s) = c THEN lstrip(Tail(s), c) ELSE s

\* str.split(c)[0]
split_first(s, c) == IF find(s, c, 1) = 0 THEN s ELSE Take(s, find(s, c, 1))

\* the split made at the last c instead of the first
split_last(s, c) == <<Take(s, rfind(s, c)), Drop(s, rfind(s, c) + 1)>>

\* str.split(c, 1), for a string that contains c
split_once(s, c) == <<Take(s, find(s, c, 1)), Drop(s, find(s, c, 1) + 1)>>

\* str.split(c) with every separator honoured
RECURSIVE split(_, _)
split(s, c) ==
  IF find(s, c, 1) = 0 THEN <<s>>
  ELSE <<Take(s, find(s, c, 1))>> \o split(Drop(s, find(s, c, 1) + 1), c)

Digits == {"0", "1", "2", "3", "4", "5", "6", "7", "8", "9"}

DigitVal(c) ==
  CASE c = "0" -> 0 [] c = "1" -> 1 [] c = "2" -> 2 [] c = "3" -> 3 [] c = "4" -> 4
    [] c = "5" -> 5 [] c = "6" -> 6 [] c = "7" -> 7 [] c = "8" -> 8 [] c = "9" -> 9

RECURSIVE DecVal(_)
DecVal(s) == IF s = <<>> THEN 0 ELSE 10 * DecVal(Take(s, Len(s))) + DigitVal(s[Len(s)])

IsDigits(s) == s # <<>> /\ \A i \in 1..Len(s) : s[i] \in Digits

\* int(s): an optional sign and at least one digit, ValueError otherwise
int(s) ==
  IF IsDigits(s) THEN [ok |-> TRUE, val |-> DecVal(s)]
  ELSE IF s # <<>> /\ Head(s) = "+" /\ IsDigits(Tail(s)) THEN [ok |-> TRUE, val |-> DecVal(Tail(s))]
  ELSE IF s # <<>> /\ Head(s) = "-" /\ IsDigits(Tail(s)) THEN [ok |-> TRUE, val |-> 0 - DecVal(Tail(s))]
  ELSE [ok |-> FALSE, val |-> 0]

(***************************************************************************)
(* urllib.parse.urlparse(url).path for a target without scheme and         *)
(* netloc: the fragment is cut at the first '#', the query at the first    *)
(* '?', and the params at the first ';' of the last segment.               *)
(***************************************************************************)
cut_at(s, c) == IF find(s, c, 1) = 0 THEN s ELSE Take(s, find(s, c, 1))

splitparams(url) ==
  IF find(url, "/", 1) # 0
  THEN IF find(url, ";", rfind(url, "/")) = 0 THEN url ELSE Take(url, find(url, ";", rfind(url, "/")))
  ELSE cut_at(url, ";")

urlparse_path(url) == splitparams(cut_at(cut_at(url, "#"), "?"))

(***************************************************************************)
(* The content root (os.getcwd()).  A file or directory is named by the    *)
(* sequence of its path components; `files` maps each existing file to     *)
(* its size.                                                               *)
(***************************************************************************)
N_index == <<"i", "n", "d", "e", "x", ".", "h", "t", "m", "l">>
N_video == <<"v", ".", "m", "p", "4">>
N_big == <<"b", ".", "b", "i", "n">>
N_space == <<"a", " ", "b">>
N_dir == <<"d">>
N_bare == <<"e">>

\* directories: the root, d/ (holds an index.html) and e/ (holds nothing)
Dirs == {<<>>, <<N_dir>>, <<N_bare>>}

VideoSizes == {0, 3, 20000}

BigSizes == {1048576, 1048577}

FileSystem(root_index, vsize, bsize) ==
  [p \in {<<N_video>>, <<N_big>>, <<N_space>>, <<N_dir, N_index>>}
         \cup (IF root_index THEN {<<N_index>>} ELSE {}) |->
     CASE p = <<N_video>> -> vsize
       [] p = <<N_big>> -> bsize
       [] p = <<N_space>> -> 2
       [] OTHER -> 5]

FileSystems == {FileSystem(ri, vs, bs) : ri \in BOOLEAN, vs \in VideoSizes, bs \in BigSizes}

\* the components the kernel walks for a relative path: empty components
\* (doubled or trailing slashes) and "." are skipped
RECURSIVE skip_empty(_)
skip_empty(cs) ==
  IF cs = <<>> THEN <<>>
  ELSE IF Head(cs) = <<>> \/ Head(cs) = <<".">> THEN skip_empty(Tail(cs))
  ELSE <<Head(cs)>> \o skip_empty(Tail(cs))

components(path) == skip_empty(split(path, "/"))

\* os.path.isfile(os.path.join(os.getcwd(), path)): a path with a trailing
\* slash names no regular file
isfile(fs, path) == components(path) \in DOMAIN fs /\ ~endswith(path, <<"/">>)

\* os.path.isdir(os.path.join(os.getcwd(), path))
isdir(fs, path) == components(path) \in Dirs

\* os.path.getsize
getsize(fs, path) == fs[components(path)]

\* the file is there: os.path.getsize and open do not raise
\* FileNotFoundError
exists(fs, path) == components(path) \in DOMAIN fs

\* os.path.join(a, b) for a relative b
join(a, b) == IF a = <<>> \/ endswith(a, <<"/">>) THEN a \o b ELSE a \o <<"/">> \o b

\* file_path.endswith(('.mp4', '.webm', '.mkv'))
is_video(path) ==
  \/ endswith(path, <<".", "m", "p", "4">>)
  \/ endswith(path, <<".", "w", "e", "b", "m">>)
  \/ endswith(path, <<".", "m", "k", "v">>)

(***************************************************************************)
(* Requests.  A target is up to MaxSegs segments, each after a '/', then   *)
(* an optional suffix (a trailing slash, a query, params or a fragment).   *)
(***************************************************************************)
Segs == {N_video, N_big, N_index, N_dir, N_bare,
         <<"n">>,
         <<".", ".">>,
         <<"%", "2", "e", "%", "2", "e">>,
         <<"a", "%", "2", "0", "b">>}

Suffixes == {<<>>, <<"/">>, <<"?", ".", ".">>, <<";", ".", ".">>, <<"#", ".", ".">>}

RECURSIVE SegPaths(_)
SegPaths(n) ==
  IF n = 0 THEN {<<>>}
  ELSE SegPaths(n - 1) \cup {p \o <<"/">> \o s : p \in SegPaths(n - 1), s \in Segs}

\* the request line always carries a non-empty target
Targets == {p \o x : p \in SegPaths(MaxSegs), x \in Suffixes} \ {<<>>}

BytesEq == <<"b", "y", "t", "e", "s", "=">>

RangeToks == {<<>>, <<"0">>, <<"1">>, <<"2">>, <<"8", "1", "9", "2">>,
              <<"2", "0", "0", "0", "0">>, <<"+", "1">>, <<"x">>}

RangeSeps == {<<>>, <<"-">>, <<"-", "-">>}

RangeTails == {<<>>, <<",", "0", "-", "0">>, <<"-", "1">>}

\* Range header values: with and without the bytes= prefix, every pairing
\* of a start and an end token around zero, one or two dashes, alone or
\* followed by a second range or by a further dash and number
RangeValues ==
  {pre \o s \o d \o e \o t :
     pre \in {BytesEq, <<>>}, s \in RangeToks, d \in RangeSeps, e \in RangeToks, t \in RangeTails}

Request(m, t, hr, r) == [method |-> m, target |-> t, has_range |-> hr, range |-> r]

NoRequest == Request("NONE", <<>>, FALSE, <<>>)

\* every target, with and without a Range header
PathRequests ==
  {Request(m, t, FALSE, <<>>) : m \in {"GET", "OPTIONS"}, t \in Targets}
  \cup {Request("GET", t, TRUE, BytesEq \o <<"0", "-", "0">>) : t \in Targets}

\* every Range header value, on a video file and on a file that is not one
RangeRequests ==
  {Request("GET", <<"/">> \o n, TRUE, r) : n \in {N_video, N_index}, r \in RangeValues}

Requests == PathRequests \cup RangeRequests

(***************************************************************************)
(* Responses.  `wire[w]` is every write the handler of connection w has    *)
(* attempted on self.wfile, in order; ok is FALSE for a write that raised  *)
(* BrokenPipeError / ConnectionResetError / ConnectionAbortedError.        *)
(***************************************************************************)
NoRange == <<>>

\* the exposed headers announced for video paths only
end_headers_video_expose(path) ==
  {<<"Access-Control-Allow-Origin", "*">>,
   <<"Access-Control-Allow-Methods", "GET, POST, OPTIONS">>,
   <<"Access-Control-Allow-Headers", "Content-Type, Authorization, Range">>}
  \cup (IF is_video(path)
        THEN {<<"Access-Control-Expose-Headers", "Content-Range, Content-Length, Accept-Ranges">>,
              <<"Accept-Ranges", "bytes">>, <<"Cache-Control", "no-cache">>}
        ELSE IF endswith(path, <<".", "m", "p", "d">>)
        THEN {<<"Cache-Control", "no-cache, no-store, must-revalidate">>,
              <<"Pragma", "no-cache">>, <<"Expires", "0">>}
        ELSE {})

\* the headers end_headers adds to every header block, by self.path
end_headers(path) ==
  {<<"Access-Control-Allow-Origin", "*">>,
   <<"Access-Control-Allow-Methods", "GET, POST, OPTIONS">>,
   <<"Access-Control-Allow-Headers", "Content-Type, Authorization, Range">>,
   <<"Access-Control-Expose-Headers", "Content-Range, Content-Length, Accept-Ranges">>}
  \cup (IF is_video(path)
        THEN {<<"Accept-Ranges", "bytes">>, <<"Cache-Control", "no-cache">>}
        ELSE IF endswith(path, <<".", "m", "p", "d">>)
        THEN {<<"Cache-Control", "no-cache, no-store, must-revalidate">>,
              <<"Pragma", "no-cache">>, <<"Expires", "0">>}
        ELSE {})

\* a status line and header block: send_response, send_header..., end_headers
HeadWrite(path, status, extra, clen, crange, ok) ==
  [kind |-> "head", status |-> status, hdrs |-> extra \cup end_headers(path),
   clen |-> clen, crange |-> crange, file |-> <<>>, off |-> 0, len |-> 0, ok |-> ok]

\* a write of body bytes: len bytes read at offset off of file
BodyWrite(kind, file, off, len, ok) ==
  [kind |-> kind, status |-> 0, hdrs |-> {}, clen |-> 0, crange |-> NoRange,
   file |-> file, off |-> off, len |-> len, ok |-> ok]

\* send_error(code): the header block, then the HTML page (never empty; 1
\* stands for its length); the first write on a broken connection raises and
\* nothing follows it
send_error(wr, c, path, code) ==
  IF c = "open"
  THEN wr \o <<HeadWrite(path, code, {<<"Connection", "close">>}, 1, NoRange, TRUE),
               BodyWrite("errbody", <<>>, 0, 1, TRUE)>>
  ELSE wr \o <<HeadWrite(path, code, {<<"Connection", "close">>}, 1, NoRange, FALSE)>>

\* `except Exception: try: send_error(500) except (BrokenPipeError, ...): pass`
\* after a failure inside the try block: raised says whether there was one
guarded_500(wr, c, path, raised) == IF raised THEN send_error(wr, c, path, 500) ELSE wr

(***************************************************************************)
(* Handler state.                                                          *)
(***************************************************************************)
NoChunk == [off |-> 0, len |-> 0]

InitLocal ==
  [file_path |-> <<>>, file_size |-> 0, start |-> 0, end |-> 0, content_length |-> 0,
   remaining |-> 0, chunk |-> NoChunk,
   route |-> "none", parsed |-> FALSE, escaped |-> FALSE, disconnected |-> FALSE,
   stop |-> "none"]

\* one file object (one file position) shared by every handler
handle_shared(w) == 1

\* the file object `f` of a handler: each `open` call returns its own
handle(w) == w

InitWith(rs) ==
  /\ files \in FileSystems
  /\ req = rs
  /\ conn = [w \in Workers |-> "open"]
  /\ pc = [w \in Workers |-> IF rs[w] = NoRequest THEN "idle" ELSE "start"]
  /\ wire = [w \in Workers |-> <<>>]
  /\ fsops = [w \in Workers |-> <<>>]
  /\ local = [w \in Workers |-> InitLocal]
  /\ fpos = [w \in Workers |-> 0]
  /\ isopen = [w \in Workers |-> FALSE]

\* one connection, any request
Init == \E r \in Requests : InitWith([w \in Workers |-> IF w = 1 THEN r ELSE NoRequest])

(***************************************************************************)
(* The client side of a connection: from here on every write on it raises. *)
(***************************************************************************)
Disconnect(w) ==
  /\ pc[w] \notin {"idle", "done"}
  /\ conn[w] = "open"
  /\ conn' = [conn EXCEPT ![w] = "broken"]
  /\ UNCHANGED <<files, req, pc, wire, fsops, local, fpos, isopen>>

(***************************************************************************)
(* do_OPTIONS                                                              *)
(***************************************************************************)
\* the preflight put behind the traversal check of do_GET
do_OPTIONS_checked(w) ==
  /\ pc[w] = "start"
  /\ req[w].method = "OPTIONS"
  /\ wire' = [wire EXCEPT ![w] =
       IF contains(urlparse_path(req[w].target), <<".", ".">>)
       THEN send_error(@, conn[w], req[w].target, 403)
       ELSE @ \o <<HeadWrite(req[w].target, 200, {}, 0, NoRange, conn[w] = "open")>>]
  /\ local' = [local EXCEPT ![w].escaped = (conn[w] # "open"), ![w].route = "options"]
  /\ pc' = [pc EXCEPT ![w] = "done"]
  /\ UNCHANGED <<files, req, conn, fsops, fpos, isopen>>

\* send_response(200); end_headers(): an exception of the write leaves
\* do_OPTIONS
do_OPTIONS(w) ==
  /\ pc[w] = "start"
  /\ req[w].method = "OPTIONS"
  /\ wire' = [wire EXCEPT ![w] = @ \o <<HeadWrite(req[w].target, 200, {}, 0, NoRange, conn[w] = "open")>>]
  /\ local' = [local EXCEPT ![w].escaped = (conn[w] # "open"), ![w].route = "options"]
  /\ pc' = [pc EXCEPT ![w] = "done"]
  /\ UNCHANGED <<files, req, conn, fsops, fpos, isopen>>

(***************************************************************************)
(* do_GET up to the call of serve_file_with_range                          *)
(***************************************************************************)
\* parsed_path.path.lstrip('/')
request_path(target) == lstrip(urlparse_path(target), "/")

\* only a leading '..' is looked for
has_dotdot_leading(file_path) == startswith(file_path, <<".", ".">>)

\* the security check: '..' in file_path
has_dotdot(file_path) == contains(file_path, <<".", ".">>)

\* `if not file_path or file_path == '/': file_path = 'index.html'`
root_path(file_path) == IF file_path = <<>> \/ file_path = <<"/">> THEN N_index ELSE file_path

\* list_directory(file_path) under `else`: the listing page's header block is
\* written (1 stands for the length of the page, which is never empty) and
\* the page itself, which list_directory returns, is dropped by do_GET
do_GET(w) ==
  /\ pc[w] = "start"
  /\ req[w].method = "GET"
  /\ LET target == req[w].target
         file_path == root_path(request_path(target))
         index_path == join(file_path, N_index)
         broken == conn[w] # "open"
     IN IF has_dotdot(request_path(target))
        THEN /\ wire' = [wire EXCEPT ![w] = send_error(@, conn[w], target, 403)]
             /\ local' = [local EXCEPT ![w].route = "forbidden", ![w].escaped = broken]
             /\ pc' = [pc EXCEPT ![w] = "done"]
             /\ UNCHANGED fsops
        ELSE IF isfile(files, file_path)
        THEN /\ fsops' = [fsops EXCEPT ![w] = @ \o <<"isfile">>]
             /\ local' = [local EXCEPT ![w].route = "file", ![w].file_path = file_path]
             /\ pc' = [pc EXCEPT ![w] = "serve"]
             /\ UNCHANGED wire
        ELSE IF isdir(files, file_path)
        THEN IF isfile(files, index_path)
             THEN /\ fsops' = [fsops EXCEPT ![w] = @ \o <<"isfile", "isdir", "isfile">>]
                  /\ local' = [local EXCEPT ![w].route = "index", ![w].file_path = index_path]
                  /\ pc' = [pc EXCEPT ![w] = "serve"]
                  /\ UNCHANGED wire
             ELSE /\ fsops' = [fsops EXCEPT ![w] = @ \o <<"isfile", "isdir", "isfile", "listdir">>]
                  /\ wire' = [wire EXCEPT ![w] =
                       guarded_500(@ \o <<HeadWrite(target, 200, {}, 1, NoRange, ~broken)>>,
                                   conn[w], target, broken)]
                  /\ local' = [local EXCEPT ![w].route = "listing"]
                  /\ pc' = [pc EXCEPT ![w] = "done"]
        ELSE /\ fsops' = [fsops EXCEPT ![w] = @ \o <<"isfile", "isdir">>]
             /\ wire' = [wire EXCEPT ![w] =
                  guarded_500(send_error(@, conn[w], target, 404), conn[w], target, broken)]
             /\ local' = [local EXCEPT ![w].route = "notfound"]
             /\ pc' = [pc EXCEPT ![w] = "done"]
  /\ UNCHANGED <<files, req, conn, fpos, isopen>>

(***************************************************************************)
(* serve_file_with_range                                                   *)
(***************************************************************************)
\* `range_header and file_path.endswith(('.mp4', '.webm', '.mkv'))`
range_eligible(r, file_path) == r.has_range /\ r.range # <<>> /\ is_video(file_path)

\* os.path.getsize, then the dispatch on the Range header.  If the file has
\* gone since os.path.isfile saw it, getsize raises: the `except` of lines
\* 103-105 calls send_error(500) unguarded, and an exception of that write
\* reaches the `except` of do_GET (lines 80-86), which tries a 500 again.
\* handle_range_request and handle_normal_request catch their own exceptions.
serve_file_with_range(w) ==
  /\ pc[w] = "serve"
  /\ fsops' = [fsops EXCEPT ![w] = @ \o <<"getsize">>]
  /\ IF exists(files, local[w].file_path)
     THEN /\ local' = [local EXCEPT ![w].file_size = getsize(files, local[w].file_path)]
          /\ pc' = [pc EXCEPT ![w] = IF range_eligible(req[w], local[w].file_path) THEN "range" ELSE "normal"]
          /\ UNCHANGED wire
     ELSE /\ wire' = [wire EXCEPT ![w] =
               guarded_500(send_error(@, conn[w], req[w].target, 500), conn[w], req[w].target,
                           conn[w] # "open")]
          /\ pc' = [pc EXCEPT ![w] = "done"]
          /\ UNCHANGED local
  /\ UNCHANGED <<files, req, conn, fpos, isopen>>

(***************************************************************************)
(* handle_range_request: parsing, validation and the 206 header block      *)
(***************************************************************************)
\* ranges = range_header[6:].split(',')[0]
first_range(range_header) == split_first(Drop(range_header, 7), ",")

\* start = int(start_str) if start_str else 0
parse_start(start_str) == IF start_str # <<>> THEN int(start_str) ELSE [ok |-> TRUE, val |-> 0]

\* the default end one past the last byte
parse_end_size(end_str, file_size) ==
  IF end_str # <<>> THEN int(end_str) ELSE [ok |-> TRUE, val |-> file_size]

\* end = int(end_str) if end_str else file_size - 1
parse_end(end_str, file_size) ==
  IF end_str # <<>> THEN int(end_str) ELSE [ok |-> TRUE, val |-> file_size - 1]

\* the end compared with > instead of >=
unsatisfiable_gt(start, end, file_size) == start >= file_size \/ end > file_size \/ start > end

\* if start >= file_size or end >= file_size or start > end
unsatisfiable(start, end, file_size) == start >= file_size \/ end >= file_size \/ start > end

\* content_length = end - start + 1
content_length(start, end) == end - start + 1

\* the outcome of the parsing code for a header value: "prefix" and "format"
\* are the two early 416 returns, "value" is int() raising ValueError
parse_range(range_header, file_size) ==
  IF ~startswith(range_header, BytesEq)
  THEN [outcome |-> "prefix", start |-> 0, end |-> 0]
  ELSE IF find(first_range(range_header), "-", 1) = 0
  THEN [outcome |-> "format", start |-> 0, end |-> 0]
  ELSE LET pair == split_once(first_range(range_header), "-")
           s == parse_start(pair[1])
           e == parse_end(pair[2], file_size)
       IN IF ~s.ok \/ ~e.ok
          THEN [outcome |-> "value", start |-> 0, end |-> 0]
          ELSE [outcome |-> "parsed", start |-> s.val, end |-> e.val]

handle_range_request(w) ==
  /\ pc[w] = "range"
  /\ LET target == req[w].target
         size == local[w].file_size
         p == parse_range(req[w].range, size)
         broken == conn[w] # "open"
     IN IF p.outcome \in {"prefix", "format"}
        THEN /\ wire' = [wire EXCEPT ![w] =
                  guarded_500(send_error(@, conn[w], target, 416), conn[w], target, broken)]
             /\ pc' = [pc EXCEPT ![w] = "done"]
             /\ UNCHANGED local
        ELSE IF p.outcome = "value"
        THEN /\ wire' = [wire EXCEPT ![w] = guarded_500(@, conn[w], target, TRUE)]
             /\ pc' = [pc EXCEPT ![w] = "done"]
             /\ UNCHANGED local
        ELSE IF unsatisfiable(p.start, p.end, size)
        THEN /\ wire' = [wire EXCEPT ![w] =
                  guarded_500(send_error(@, conn[w], target, 416), conn[w], target, broken)]
             /\ local' = [local EXCEPT ![w].start = p.start, ![w].end = p.end, ![w].parsed = TRUE]
             /\ pc' = [pc EXCEPT ![w] = "done"]
        ELSE /\ wire' = [wire EXCEPT ![w] =
                  guarded_500(@ \o <<HeadWrite(target, 206, {}, content_length(p.start, p.end),
                                               <<p.start, p.end, size>>, ~broken)>>,
                              conn[w], target, broken)]
             /\ local' = [local EXCEPT ![w].start = p.start, ![w].end = p.end, ![w].parsed = TRUE,
                                       ![w].content_length = content_length(p.start, p.end)]
             /\ pc' = [pc EXCEPT ![w] = IF broken THEN "done" ELSE "range_open"]
  /\ UNCHANGED <<files, req, conn, fsops, fpos, isopen>>

(***************************************************************************)
(* handle_range_request: open, seek and the body loop                      *)
(***************************************************************************)
\* buffer_size = 8192
range_buffer_size == 8192

\* f.read(n) at position pos of a file of size bytes: the bytes returned
read_len(size, pos, n) == IF pos >= size THEN 0 ELSE Min(n, size - pos)

\* the seek left out: reading starts at the beginning of the file
seek_omitted(start) == 0

\* f.seek(start)
seek(start) == start

\* open, f.seek(start), remaining = content_length.  If the file has gone,
\* open raises and the `except Exception` of lines 165-171 tries a 500.
range_open(w) ==
  /\ pc[w] = "range_open"
  /\ fsops' = [fsops EXCEPT ![w] = @ \o <<"open">>]
  /\ IF exists(files, local[w].file_path)
     THEN /\ isopen' = [isopen EXCEPT ![w] = TRUE]
          /\ fpos' = [fpos EXCEPT ![handle(w)] = seek(local[w].start)]
          /\ local' = [local EXCEPT ![w].remaining = local[w].content_length,
                                    ![w].stop = "running"]
          /\ pc' = [pc EXCEPT ![w] = "range_loop"]
          /\ UNCHANGED wire
     ELSE /\ wire' = [wire EXCEPT ![w] = guarded_500(@, conn[w], req[w].target, TRUE)]
          /\ pc' = [pc EXCEPT ![w] = "done"]
          /\ UNCHANGED <<isopen, fpos, local>>
  /\ UNCHANGED <<files, req, conn>>

\* a full buffer asked for whatever remains of the span
chunk_size_fixed(remaining) == range_buffer_size

\* chunk_size = min(buffer_size, remaining)
chunk_size(remaining) == Min(range_buffer_size, remaining)

\* `while remaining > 0`, chunk = f.read(min(buffer_size, remaining)),
\* `if not chunk: break`; leaving the loop leaves the `with` block
range_read(w) ==
  /\ pc[w] = "range_loop"
  /\ LET pos == fpos[handle(w)]
         n == read_len(getsize(files, local[w].file_path), pos, chunk_size(local[w].remaining))
     IN IF local[w].remaining > 0 /\ n > 0
        THEN /\ local' = [local EXCEPT ![w].chunk = [off |-> pos, len |-> n]]
             /\ fpos' = [fpos EXCEPT ![handle(w)] = pos + n]
             /\ pc' = [pc EXCEPT ![w] = "range_write"]
             /\ UNCHANGED isopen
        ELSE /\ isopen' = [isopen EXCEPT ![w] = FALSE]
             /\ local' = [local EXCEPT ![w].stop = IF local[w].remaining > 0 THEN "eof" ELSE "complete"]
             /\ pc' = [pc EXCEPT ![w] = "done"]
             /\ UNCHANGED fpos
  /\ UNCHANGED <<files, req, conn, wire, fsops>>

\* the disconnect escalated like any other exception: a 500 is attempted
body_disconnected_500(wr, c, path) == send_error(wr, c, path, 500)

\* `except (BrokenPipeError, ConnectionAbortedError, ConnectionResetError):
\* return` around a body write: nothing more is written
body_disconnected(wr, c, path) == wr

\* self.wfile.write(chunk); remaining -= len(chunk), or the disconnect and
\* `return`
range_write(w) ==
  /\ pc[w] = "range_write"
  /\ LET c == local[w].chunk
     IN IF conn[w] = "open"
        THEN /\ wire' = [wire EXCEPT ![w] = @ \o <<BodyWrite("body", local[w].file_path, c.off, c.len, TRUE)>>]
             /\ local' = [local EXCEPT ![w].remaining = @ - c.len, ![w].chunk = NoChunk]
             /\ pc' = [pc EXCEPT ![w] = "range_loop"]
             /\ UNCHANGED isopen
        ELSE /\ wire' = [wire EXCEPT ![w] =
                  body_disconnected(@ \o <<BodyWrite("body", local[w].file_path, c.off, c.len, FALSE)>>,
                                    conn[w], req[w].target)]
             /\ local' = [local EXCEPT ![w].disconnected = TRUE, ![w].chunk = NoChunk,
                                       ![w].stop = "disconnect"]
             /\ isopen' = [isopen EXCEPT ![w] = FALSE]
             /\ pc' = [pc EXCEPT ![w] = "done"]
  /\ UNCHANGED <<files, req, conn, fsops, fpos>>

(***************************************************************************)
(* handle_normal_request                                                   *)
(***************************************************************************)
\* 1024 * 1024
large_file_threshold == 1048576

\* buffer_size = 64 * 1024
normal_buffer_size == 65536

\* the boundary taken as a large file
is_large_ge(file_size) == file_size >= large_file_threshold

\* `if file_size > 1024 * 1024`
is_large(file_size) == file_size > large_file_threshold

handle_normal_request(w) ==
  /\ pc[w] = "normal"
  /\ LET target == req[w].target
         broken == conn[w] # "open"
     IN /\ wire' = [wire EXCEPT ![w] =
             guarded_500(@ \o <<HeadWrite(target, 200, {}, local[w].file_size, NoRange, ~broken)>>,
                         conn[w], target, broken)]
        /\ pc' = [pc EXCEPT ![w] = IF broken THEN "done" ELSE "normal_open"]
  /\ UNCHANGED <<files, req, conn, fsops, local, fpos, isopen>>

\* open and the choice of the branch.  If the file has gone, open raises and
\* the `except Exception` of lines 206-212 tries a 500.
normal_open(w) ==
  /\ pc[w] = "normal_open"
  /\ fsops' = [fsops EXCEPT ![w] = @ \o <<"open">>]
  /\ IF exists(files, local[w].file_path)
     THEN /\ isopen' = [isopen EXCEPT ![w] = TRUE]
          /\ fpos' = [fpos EXCEPT ![handle(w)] = 0]
          /\ pc' = [pc EXCEPT ![w] = IF is_large(local[w].file_size)
                                     THEN "normal_loop" ELSE "normal_small"]
          /\ UNCHANGED wire
     ELSE /\ wire' = [wire EXCEPT ![w] = guarded_500(@, conn[w], req[w].target, TRUE)]
          /\ pc' = [pc EXCEPT ![w] = "done"]
          /\ UNCHANGED <<isopen, fpos>>
  /\ UNCHANGED <<files, req, conn, local>>

\* the loop going round again on an empty read instead of leaving
normal_read_spin(w) ==
  /\ pc[w] = "normal_loop"
  /\ LET pos == fpos[handle(w)]
         n == read_len(getsize(files, local[w].file_path), pos, normal_buffer_size)
     IN IF n > 0
        THEN /\ local' = [local EXCEPT ![w].chunk = [off |-> pos, len |-> n]]
             /\ fpos' = [fpos EXCEPT ![handle(w)] = pos + n]
             /\ pc' = [pc EXCEPT ![w] = "normal_write"]
             /\ UNCHANGED isopen
        ELSE UNCHANGED <<local, fpos, pc, isopen>>
  /\ UNCHANGED <<files, req, conn, wire, fsops>>

\* chunk = f.read(buffer_size); `if not chunk: break`
normal_read(w) ==
  /\ pc[w] = "normal_loop"
  /\ LET pos == fpos[handle(w)]
         n == read_len(getsize(files, local[w].file_path), pos, normal_buffer_size)
     IN IF n > 0
        THEN /\ local' = [local EXCEPT ![w].chunk = [off |-> pos, len |-> n]]
             /\ fpos' = [fpos EXCEPT ![handle(w)] = pos + n]
             /\ pc' = [pc EXCEPT ![w] = "normal_write"]
             /\ UNCHANGED isopen
        ELSE /\ isopen' = [isopen EXCEPT ![w] = FALSE]
             /\ pc' = [pc EXCEPT ![w] = "done"]
             /\ UNCHANGED <<local, fpos>>
  /\ UNCHANGED <<files, req, conn, wire, fsops>>

\* self.wfile.write(chunk), or the disconnect and `return`
normal_write(w) ==
  /\ pc[w] = "normal_write"
  /\ LET c == local[w].chunk
     IN IF conn[w] = "open"
        THEN /\ wire' = [wire EXCEPT ![w] = @ \o <<BodyWrite("body", local[w].file_path, c.off, c.len, TRUE)>>]
             /\ local' = [local EXCEPT ![w].chunk = NoChunk]
             /\ pc' = [pc EXCEPT ![w] = "normal_loop"]
             /\ UNCHANGED isopen
        ELSE /\ wire' = [wire EXCEPT ![w] =
                  body_disconnected(@ \o <<BodyWrite("body", local[w].file_path, c.off, c.len, FALSE)>>,
                                    conn[w], req[w].target)]
             /\ local' = [local EXCEPT ![w].disconnected = TRUE, ![w].chunk = NoChunk]
             /\ isopen' = [isopen EXCEPT ![w] = FALSE]
             /\ pc' = [pc EXCEPT ![w] = "done"]
  /\ UNCHANGED <<files, req, conn, fsops, fpos>>

\* self.wfile.write(f.read()): the rest of the file in one write
normal_small(w) ==
  /\ pc[w] = "normal_small"
  /\ LET pos == fpos[handle(w)]
         size == getsize(files, local[w].file_path)
         n == IF pos >= size THEN 0 ELSE size - pos
     IN /\ wire' = [wire EXCEPT ![w] =
             IF conn[w] = "open"
             THEN @ \o <<BodyWrite("body", local[w].file_path, pos, n, TRUE)>>
             ELSE body_disconnected(@ \o <<BodyWrite("body", local[w].file_path, pos, n, FALSE)>>,
                                    conn[w], req[w].target)]
        /\ fpos' = [fpos EXCEPT ![handle(w)] = pos + n]
        /\ local' = [local EXCEPT ![w].disconnected = (conn[w] # "open")]
  /\ isopen' = [isopen EXCEPT ![w] = FALSE]
  /\ pc' = [pc EXCEPT ![w] = "done"]
  /\ UNCHANGED <<files, req, conn, fsops>>

(***************************************************************************)
(* The server: ThreadedHTTPServer runs each handler in its own thread.     *)
(***************************************************************************)
Next ==
  \E w \in Workers :
    \/ Disconnect(w)
    \/ do_OPTIONS(w)
    \/ do_GET(w)
    \/ serve_file_with_range(w)
    \/ handle_range_request(w)
    \/ range_open(w)
    \/ range_read(w)
    \/ range_write(w)
    \/ handle_normal_request(w)
    \/ normal_open(w)
    \/ normal_read(w)
    \/ normal_write(w)
    \/ normal_small(w)

Spec == Init /\ [][Next]_vars

(***************************************************************************)
(* Two connections at once: ranges of one video (two spans of two chunks   *)
(* each, and two short ones) next to a whole-file transfer, a root         *)
(* request and a preflight.                                                *)
(***************************************************************************)
ConcRanges == {<<"0", "-", "9", "9", "9", "9">>,
               <<"1", "0", "0", "0", "0", "-", "1", "9", "9", "9", "9">>,
               <<"0", "-", "1">>,
               <<"2", "-", "2">>}

ConcRequests ==
  {Request("GET", <<"/">> \o N_video, TRUE, BytesEq \o r) : r \in ConcRanges}
  \cup {Request("GET", <<"/">> \o N_big, FALSE, <<>>),
        Request("GET", <<"/">>, FALSE, <<>>),
        Request("OPTIONS", <<"/">>, FALSE, <<>>)}

InitConc == \E r1 \in ConcRequests, r2 \in ConcRequests : InitWith([w \in Workers |-> IF w = 1 THEN r1 ELSE r2])

SpecConc == InitConc /\ [][Next]_vars

(***************************************************************************)
(* The content root changing under a request: another process truncates,   *)
(* extends or removes the file a handler is serving.  A removal is taken   *)
(* only while no handler holds the file open (the handle of an unlinked    *)
(* file reads on as before).                                               *)
(***************************************************************************)
\* the sizes a file can be given
NewSizes(p) ==
  CASE p = <<N_video>> -> VideoSizes
    [] p = <<N_big>> -> BigSizes
    [] OTHER -> {1, 5}

\* handler w has resolved its request to file p and has not finished
Serving(w, p) ==
  /\ pc[w] \notin {"idle", "start", "done"}
  /\ components(local[w].file_path) = p

Resize(p, size) ==
  /\ p \in DOMAIN files
  /\ \E w \in Workers : Serving(w, p)
  /\ size # files[p]
  /\ files' = [files EXCEPT ![p] = size]
  /\ UNCHANGED <<req, conn, pc, wire, fsops, local, fpos, isopen>>

Remove(p) ==
  /\ p \in DOMAIN files
  /\ \E w \in Workers : Serving(w, p)
  /\ \A w \in Workers : Serving(w, p) => ~isopen[w]
  /\ files' = [q \in DOMAIN files \ {p} |-> files[q]]
  /\ UNCHANGED <<req, conn, pc, wire, fsops, local, fpos, isopen>>

EnvRanges == {<<"0", "-", "9", "9", "9", "9">>, <<"0", "-", "1">>, <<"1", "-">>}

EnvRequests ==
  {Request("GET", <<"/">> \o N_video, TRUE, BytesEq \o r) : r \in EnvRanges}
  \cup {Request("GET", <<"/">> \o n, FALSE, <<>>) : n \in {N_video, N_big, N_bare, <<>>, <<".", ".">>}}
  \cup {Request("OPTIONS", <<"/">>, FALSE, <<>>)}

InitEnv == \E r \in EnvRequests : InitWith([w \in Workers |-> IF w = 1 THEN r ELSE NoRequest])

NextEnv ==
  \/ Next
  \/ \E p \in DOMAIN files : \E size \in NewSizes(p) : Resize(p, size)
  \/ \E p \in DOMAIN files : Remove(p)

SpecEnv == InitEnv /\ [][NextEnv]_vars

\* do_GET and handle_range_request can be taken exactly in these states, and
\* each of their branches moves pc
do_GET_enabled(w) == pc[w] = "start" /\ req[w].method = "GET"

handle_range_request_enabled(w) == pc[w] = "range"

\* the steps of a handler after its dispatch
Streamer(w) ==
  \/ do_OPTIONS(w)
  \/ serve_file_with_range(w)
  \/ range_open(w)
  \/ range_read(w)
  \/ range_write(w)
  \/ handle_normal_request(w)
  \/ normal_open(w)
  \/ normal_read(w)
  \/ normal_write(w)
  \/ normal_small(w)

\* Each handler thread keeps being scheduled, and each of its system calls
\* returns (a write to a client that has gone returns with an error): weak
\* fairness of each step, written out for the two steps whose enabling
\* condition is given above.  The client and the other users of the content
\* root owe nothing.
Scheduled(w) ==
  /\ WF_vars(Streamer(w))
  /\ []<>(~do_GET_enabled(w)) \/ []<><<do_GET(w)>>_vars
  /\ []<>(~handle_range_request_enabled(w)) \/ []<><<handle_range_request(w)>>_vars

SpecFair == InitEnv /\ [][NextEnv]_vars /\ \A w \in Workers : Scheduled(w)

(***************************************************************************)
(* Properties.                                                             *)
(***************************************************************************)
Active == {w \in Workers : req[w] # NoRequest}

Done(w) == pc[w] = "done"

\* every header block the handler attempted to write, in order
Heads(w) == SelectSeq(wire[w], LAMBDA x : x.kind = "head")

\* the header blocks that reached the client
SentHeads(w) == SelectSeq(wire[w], LAMBDA x : x.kind = "head" /\ x.ok)

\* the file bytes that reached the client, as the chunks written
SentBody(w) == SelectSeq(wire[w], LAMBDA x : x.kind = "body" /\ x.ok)

\* every attempted write of file bytes
BodyWrites(w) == SelectSeq(wire[w], LAMBDA x : x.kind = "body")

\* the chunks are, in order, the bytes from..to of file
RECURSIVE Tiles(_, _, _, _)
Tiles(chunks, file, from, to) ==
  IF chunks = <<>> THEN from = to + 1
  ELSE /\ Head(chunks).file = file
       /\ Head(chunks).off = from
       /\ Tiles(Tail(chunks), file, from + Head(chunks).len, to)

\* a Range header value of the form bytes=<digits>-<digits>
PlainRange(h) ==
  /\ startswith(h, BytesEq)
  /\ find(Drop(h, 7), "-", 1) # 0
  /\ IsDigits(Take(Drop(h, 7), find(Drop(h, 7), "-", 1)))
  /\ IsDigits(Drop(Drop(h, 7), find(Drop(h, 7), "-", 1) + 1))

PlainStart(h) == DecVal(Take(Drop(h, 7), find(Drop(h, 7), "-", 1)))

PlainEnd(h) == DecVal(Drop(Drop(h, 7), find(Drop(h, 7), "-", 1) + 1))

\* the GET of w resolved to an existing file and has finished on a
\* connection that never broke, with a header bytes=start-end such that
\* 0 <= start <= end < size
ValidRangeServed(w) ==
  /\ Done(w)
  /\ conn[w] = "open"
  /\ req[w].method = "GET"
  /\ local[w].route \in {"file", "index"}
  /\ req[w].has_range
  /\ PlainRange(req[w].range)
  /\ PlainStart(req[w].range) <= PlainEnd(req[w].range)
  /\ PlainEnd(req[w].range) < getsize(files, local[w].file_path)

\* the response of w is a 206 for bytes start..end of its file
Is206Slice(w, start, end) ==
  /\ Len(Heads(w)) = 1
  /\ Heads(w)[1].ok
  /\ Heads(w)[1].status = 206
  /\ Heads(w)[1].clen = end - start + 1
  /\ Tiles(SentBody(w), local[w].file_path, start, end)

\* C1 as stated: every GET of an existing file with a valid bytes=start-end
\* header is answered 206 with Content-Length end-start+1 and exactly the
\* bytes start..end of the file.
C1_AnyFileRange ==
  \A w \in Active :
    ValidRangeServed(w) => Is206Slice(w, PlainStart(req[w].range), PlainEnd(req[w].range))

\* C1 amended: the same for every existing file whose path ends in .mp4,
\* .webm or .mkv; a Range header on any other file is ignored.
C1_VideoRange ==
  \A w \in Active :
    ValidRangeServed(w) /\ is_video(local[w].file_path)
      => Is206Slice(w, PlainStart(req[w].range), PlainEnd(req[w].range))

\* a range of more than one chunk (0-8192) of the 20000-byte video was served
C1_Witness ==
  \E w \in Active :
    /\ ValidRangeServed(w)
    /\ is_video(local[w].file_path)
    /\ PlainStart(req[w].range) = 0
    /\ PlainEnd(req[w].range) = 8192
    /\ Len(SentBody(w)) = 2

\* the elements of a sequence
Elems(q) == {q[i] : i \in 1..Len(q)}

\* the range code of w parsed its header into offsets that the check of
\* C2 rejects
UnsatisfiableParsed(w) ==
  /\ local[w].parsed
  /\ \/ local[w].start >= local[w].file_size
     \/ local[w].end >= local[w].file_size
     \/ local[w].start > local[w].end

\* C2: once the parsed offsets have start >= file_size, end >= file_size or
\* start > end, the only response written is 416: no 206 header block is
\* even attempted, no file bytes are written, the file is never opened, and
\* on a connection that has not broken the 416 reaches the client.
C2_Unsatisfiable416 ==
  \A w \in Active :
    UnsatisfiableParsed(w) =>
      /\ \A x \in Elems(SentHeads(w)) : x.status = 416
      /\ \A x \in Elems(Heads(w)) : x.status # 206
      /\ BodyWrites(w) = <<>>
      /\ "open" \notin Elems(fsops[w])
      /\ ~isopen[w]
      /\ Done(w)
      /\ conn[w] = "open" => SentHeads(w) # <<>>

\* a range on the empty video was answered 416
C2_Witness ==
  \E w \in Active :
    /\ UnsatisfiableParsed(w)
    /\ local[w].file_size = 0
    /\ Len(SentHeads(w)) = 1
    /\ SentHeads(w)[1].status = 416

\* C3: a GET whose URL path contains `..` performs no filesystem operation
\* at any point, and every response it writes is a 403 (which reaches the
\* client unless the connection has broken).
C3_TraversalForbidden ==
  \A w \in Active :
    req[w].method = "GET" /\ contains(urlparse_path(req[w].target), <<".", ".">>) =>
      /\ fsops[w] = <<>>
      /\ ~isopen[w]
      /\ pc[w] \in {"start", "done"}
      /\ \A x \in Elems(Heads(w)) : x.status = 403
      /\ Done(w) => Heads(w) # <<>>
      /\ Done(w) /\ conn[w] = "open" => SentHeads(w) # <<>>

\* /d/.. (a traversal after an existing directory) was answered 403
C3_Witness ==
  \E w \in Active :
    /\ req[w].method = "GET"
    /\ req[w].target = <<"/", "d", "/", ".", ".">>
    /\ Done(w)
    /\ Len(SentHeads(w)) = 1
    /\ SentHeads(w)[1].status = 403

\* the GET of w resolved to a file that takes Range headers, and carries one
RangeEligible(w) ==
  /\ req[w].method = "GET"
  /\ local[w].route \in {"file", "index"}
  /\ range_eligible(req[w], local[w].file_path)

\* the number of dashes in a string
Dashes(r) == Cardinality({i \in 1..Len(r) : r[i] = "-"})

\* a token that is there and is not a number
NotNumber(tok) == tok # <<>> /\ ~int(tok).ok

\* the four malformed shapes of C4: no bytes= prefix; a first range without
\* a dash; with more than one dash; with a start or end token that is not
\* a number
Malformed(h) ==
  \/ ~startswith(h, BytesEq)
  \/ /\ startswith(h, BytesEq)
     /\ \/ Dashes(first_range(h)) = 0
        \/ Dashes(first_range(h)) > 1
        \/ /\ Dashes(first_range(h)) = 1
           /\ \/ NotNumber(split_once(first_range(h), "-")[1])
              \/ NotNumber(split_once(first_range(h), "-")[2])

\* C4 as stated: a malformed Range header on a range-eligible file is
\* answered with 416, never with 500 or 206.
C4_Malformed416 ==
  \A w \in Active :
    RangeEligible(w) /\ Done(w) /\ conn[w] = "open" /\ Malformed(req[w].range) =>
      /\ Len(Heads(w)) = 1
      /\ Heads(w)[1].status = 416

\* C5: when a write of file bytes hits a disconnect, the handler has
\* returned with the file closed; the failed write is the last write it
\* attempted, and the only header block on the connection is the 200 or 206
\* written before it.
C5_DisconnectStops ==
  \A w \in Active :
    local[w].disconnected =>
      /\ Done(w)
      /\ ~isopen[w]
      /\ Len(Heads(w)) = 1
      /\ Heads(w)[1].status \in {200, 206}
      /\ wire[w][Len(wire[w])].kind = "body"
      /\ ~wire[w][Len(wire[w])].ok
      /\ \A i \in 1..(Len(wire[w]) - 1) : wire[w][i].ok

\* a 206 transfer was cut by a disconnect after its first chunk
C5_Witness ==
  \E w \in Active :
    /\ local[w].disconnected
    /\ Heads(w)[1].status = 206
    /\ Len(SentBody(w)) = 1
    /\ Len(BodyWrites(w)) = 2

\* the code that parses the Range header has run for w
RangeParsed(w) == RangeEligible(w) /\ pc[w] \notin {"start", "serve", "range"}

\* bytes=N-
OpenEnded(h) ==
  /\ startswith(h, BytesEq)
  /\ Len(h) >= 8
  /\ h[Len(h)] = "-"
  /\ IsDigits(SubSeq(h, 7, Len(h) - 1))

\* bytes=-N
SuffixForm(h) == startswith(h, BytesEq) /\ Len(h) >= 8 /\ h[7] = "-" /\ IsDigits(Drop(h, 8))

\* C7: bytes=N- is parsed with start = N and end = file_size - 1; bytes=-N
\* is parsed with start = 0 and end = N, and is served as bytes 0..N when
\* N < file_size.
C7_TokenDefaults ==
  \A w \in Active :
    RangeParsed(w) =>
      /\ OpenEnded(req[w].range) =>
           /\ local[w].parsed
           /\ local[w].start = DecVal(SubSeq(req[w].range, 7, Len(req[w].range) - 1))
           /\ local[w].end = local[w].file_size - 1
      /\ SuffixForm(req[w].range) =>
           /\ local[w].parsed
           /\ local[w].start = 0
           /\ local[w].end = DecVal(Drop(req[w].range, 8))
           /\ (Done(w) /\ conn[w] = "open" /\ DecVal(Drop(req[w].range, 8)) < local[w].file_size)
                => Is206Slice(w, 0, DecVal(Drop(req[w].range, 8)))

\* bytes=-1 on the 3-byte video was served as bytes 0..1
C7_Witness ==
  \E w \in Active :
    /\ RangeParsed(w)
    /\ req[w].range = BytesEq \o <<"-", "1">>
    /\ local[w].file_size = 3
    /\ Done(w)
    /\ Is206Slice(w, 0, 1)

\* C8: every header block the handler writes carries
\* Access-Control-Allow-Origin: * and the Access-Control-Expose-Headers
\* value Content-Range, Content-Length, Accept-Ranges.
C8_CorsEverywhere ==
  \A w \in Active :
    \A x \in Elems(Heads(w)) :
      /\ <<"Access-Control-Allow-Origin", "*">> \in x.hdrs
      /\ <<"Access-Control-Expose-Headers", "Content-Range, Content-Length, Accept-Ranges">> \in x.hdrs

\* a 500 error response was written
C8_Witness ==
  \E w \in Active :
    /\ Done(w)
    /\ Len(SentHeads(w)) = 1
    /\ SentHeads(w)[1].status = 500
    /\ <<"Access-Control-Allow-Origin", "*">> \in SentHeads(w)[1].hdrs

\* the chunks are consecutive bytes of file starting at from
RECURSIVE TilesFrom(_, _, _)
TilesFrom(chunks, file, from) ==
  \/ chunks = <<>>
  \/ /\ Head(chunks).file = file
     /\ Head(chunks).off = from
     /\ TilesFrom(Tail(chunks), file, from + Head(chunks).len)

\* w is past the validation of its range, which was satisfiable
RangeAccepted(w) == RangeParsed(w) /\ local[w].parsed /\ ~UnsatisfiableParsed(w)

\* C6: of two range requests for disjoint spans of one file handled at the
\* same time, each writes consecutive bytes of its own span from its own
\* start, never a byte of the other's span, and, once it has finished
\* without a disconnect, exactly its own span.
C6_DisjointRanges ==
  \A w \in Active : \A v \in Active \ {w} :
    ( /\ RangeAccepted(w)
      /\ RangeAccepted(v)
      /\ local[w].file_path = local[v].file_path
      /\ (local[w].end < local[v].start \/ local[v].end < local[w].start) )
    => /\ TilesFrom(BodyWrites(w), local[w].file_path, local[w].start)
       /\ \A x \in Elems(BodyWrites(w)) :
            /\ x.off >= local[w].start
            /\ x.off + x.len <= local[w].end + 1
            /\ (x.off + x.len <= local[v].start \/ x.off > local[v].end)
       /\ (Done(w) /\ conn[w] = "open") => Tiles(SentBody(w), local[w].file_path, local[w].start, local[w].end)

\* both requests are between their first and their second chunk at once
C6_Witness ==
  /\ Active = {1, 2}
  /\ RangeAccepted(1)
  /\ RangeAccepted(2)
  /\ local[1].end < local[2].start
  /\ pc[1] = "range_write"
  /\ pc[2] = "range_write"
  /\ Len(SentBody(1)) = 1
  /\ Len(SentBody(2)) = 1

\* the value of a hexadecimal digit
IsHex(c) == c \in Digits \cup {"a", "b", "c", "d", "e", "f", "A", "B", "C", "D", "E", "F"}

HexVal(c) ==
  CASE c \in Digits -> DigitVal(c)
    [] c \in {"a", "A"} -> 10 [] c \in {"b", "B"} -> 11 [] c \in {"c", "C"} -> 12
    [] c \in {"d", "D"} -> 13 [] c \in {"e", "E"} -> 14 [] c \in {"f", "F"} -> 15

\* the character of a byte value, for the escapes that occur in the targets
ByteChar(n) == CASE n = 46 -> "." [] n = 32 -> " " [] OTHER -> "~"

\* URL decoding: every %XX replaced by the character it stands for
RECURSIVE unquote(_)
unquote(s) ==
  IF s = <<>> THEN <<>>
  ELSE IF Head(s) = "%" /\ Len(s) >= 3 /\ IsHex(s[2]) /\ IsHex(s[3])
  THEN <<ByteChar(16 * HexVal(s[2]) + HexVal(s[3]))>> \o unquote(Drop(s, 4))
  ELSE <<Head(s)>> \o unquote(Tail(s))

\* the response of w is a 200 with the whole of its file
Is200Whole(w) ==
  /\ Len(Heads(w)) = 1
  /\ Heads(w)[1].ok
  /\ Heads(w)[1].status = 200
  /\ Heads(w)[1].clen = getsize(files, local[w].file_path)
  /\ Tiles(SentBody(w), local[w].file_path, 0, getsize(files, local[w].file_path) - 1)

\* C9 as stated: the path is URL-decoded before it is checked and resolved;
\* a path whose decoded form contains `..` is answered 403, and a path
\* whose decoded form names an existing file is answered with that file.
C9_PathDecoded ==
  \A w \in Active :
    req[w].method = "GET" /\ Done(w) /\ conn[w] = "open" /\ ~req[w].has_range =>
      LET decoded == lstrip(unquote(urlparse_path(req[w].target)), "/")
      IN /\ contains(decoded, <<".", ".">>) =>
              Len(Heads(w)) = 1 /\ Heads(w)[1].status = 403
         /\ (~contains(decoded, <<".", ".">>) /\ isfile(files, decoded)) =>
              Is200Whole(w) /\ components(local[w].file_path) = components(decoded)

\* the listing page reached the client
ListingSent(w) == \E x \in Elems(wire[w]) : x.kind = "listing" /\ x.ok /\ x.len > 0

\* C10 as stated: a GET without `..` and without a Range header gets
\* exactly one response: for an empty path, index.html of the root; for a
\* file, that file; for a directory, its index.html if that is a file and
\* otherwise a listing of the directory; for anything else a 404.
C10_PathResolution ==
  \A w \in Active :
    ( /\ req[w].method = "GET"
      /\ Done(w)
      /\ conn[w] = "open"
      /\ ~req[w].has_range
      /\ ~contains(urlparse_path(req[w].target), <<".", ".">>) )
    => LET p == lstrip(urlparse_path(req[w].target), "/")
           r == IF p = <<>> THEN N_index ELSE p
       IN /\ Len(Heads(w)) = 1
          /\ isfile(files, r) => Is200Whole(w) /\ local[w].file_path = r
          /\ (~isfile(files, r) /\ isdir(files, r) /\ isfile(files, join(r, N_index))) =>
               Is200Whole(w) /\ local[w].file_path = join(r, N_index)
          /\ (~isfile(files, r) /\ isdir(files, r) /\ ~isfile(files, join(r, N_index))) =>
               Heads(w)[1].status = 200 /\ ListingSent(w)
          /\ (~isfile(files, r) /\ ~isdir(files, r)) => Heads(w)[1].status = 404


\* the GET of w resolved to a file with a video extension
ServesVideo(w) ==
  /\ req[w].method = "GET"
  /\ local[w].route \in {"file", "index"}
  /\ is_video(local[w].file_path)

\* C11 as stated: every 200 or 206 header block of a response that serves a
\* video file carries Accept-Ranges: bytes and Cache-Control: no-cache,
\* whatever the request URL that resolved to the file.
C11_VideoHeaders ==
  \A w \in Active :
    ServesVideo(w) =>
      \A x \in Elems(Heads(w)) :
        x.status \in {200, 206} =>
          /\ <<"Accept-Ranges", "bytes">> \in x.hdrs
          /\ <<"Cache-Control", "no-cache">> \in x.hdrs

\* C12: an OPTIONS request, whatever its path, touches no file and writes
\* one thing only: a 200 header block with the CORS headers, which reaches
\* the client unless the connection has broken.
C12_Preflight ==
  \A w \in Active :
    req[w].method = "OPTIONS" =>
      /\ fsops[w] = <<>>
      /\ ~isopen[w]
      /\ pc[w] \in {"start", "done"}
      /\ \A x \in Elems(wire[w]) :
           /\ x.kind = "head"
           /\ x.status = 200
           /\ <<"Access-Control-Allow-Origin", "*">> \in x.hdrs
           /\ <<"Access-Control-Expose-Headers", "Content-Range, Content-Length, Accept-Ranges">> \in x.hdrs
      /\ Done(w) => Len(wire[w]) = 1
      /\ Done(w) /\ conn[w] = "open" => wire[w][1].ok

\* OPTIONS /n/.. (no such path, and a traversal) was answered 200
C12_Witness ==
  \E w \in Active :
    /\ req[w].method = "OPTIONS"
    /\ req[w].target = <<"/", "n", "/", ".", ".">>
    /\ Done(w)
    /\ wire[w][1].ok
    /\ wire[w][1].status = 200

\* C13: every 206 header block the handler writes or attempts has
\* 0 <= start <= end < file_size for the offsets parsed, Content-Range
\* bytes start-end/file_size and Content-Length end - start + 1 >= 1.
C13_RangeInvariant ==
  \A w \in Active :
    \A x \in Elems(Heads(w)) :
      x.status = 206 =>
        /\ local[w].parsed
        /\ 0 <= local[w].start
        /\ local[w].start <= local[w].end
        /\ local[w].end < local[w].file_size
        /\ x.crange = <<local[w].start, local[w].end, local[w].file_size>>
        /\ x.clen = local[w].end - local[w].start + 1
        /\ x.clen >= 1

\* bytes=+1-2, a start token with a sign, was answered 206
C13_Witness ==
  \E w \in Active :
    /\ req[w].range = BytesEq \o <<"+", "1", "-", "2">>
    /\ Len(SentHeads(w)) = 1
    /\ SentHeads(w)[1].status = 206
    /\ SentHeads(w)[1].crange = <<1, 2, 3>>

\* the GET of w went through the whole-file streamer to its end on a
\* connection that never broke
WholeFileServed(w) ==
  /\ req[w].method = "GET"
  /\ local[w].route \in {"file", "index"}
  /\ ~range_eligible(req[w], local[w].file_path)
  /\ Done(w)
  /\ conn[w] = "open"

\* C15: the whole-file streamer sends a file of at most 1048576 bytes in
\* exactly one write holding the whole file, and a larger file in writes
\* of at most 65536 bytes each, in file order up to the end of the file.
C15_WholeFileChunks ==
  \A w \in Active :
    WholeFileServed(w) =>
      /\ Len(Heads(w)) = 1
      /\ Heads(w)[1].status = 200
      /\ local[w].file_size <= 1048576 =>
           /\ Len(BodyWrites(w)) = 1
           /\ BodyWrites(w)[1].off = 0
           /\ BodyWrites(w)[1].len = local[w].file_size
      /\ local[w].file_size > 1048576 =>
           /\ \A x \in Elems(BodyWrites(w)) : x.len >= 1 /\ x.len <= 65536
           /\ Len(BodyWrites(w)) > 1
           /\ Tiles(SentBody(w), local[w].file_path, 0, local[w].file_size - 1)

\* the file of exactly 1048576 bytes went out in one write
C15_Witness ==
  \E w \in Active :
    /\ WholeFileServed(w)
    /\ local[w].file_size = 1048576
    /\ Len(SentBody(w)) = 1
    /\ SentBody(w)[1].len = 1048576

\* C16 as stated: no exception leaves do_GET or do_OPTIONS, at whatever
\* step the connection fails.
C16_NoEscape == \A w \in Active : Done(w) => ~local[w].escaped

\* C17 as stated: a write that hits a disconnect, be it of a header block
\* or of body bytes, is the last write the handler attempts.
C17_NoWriteAfterDisconnect ==
  \A w \in Active :
    \A i \in 1..Len(wire[w]) : ~wire[w][i].ok => i = Len(wire[w])

\* the bytes in a sequence of chunks
RECURSIVE SumLen(_)
SumLen(chunks) == IF chunks = <<>> THEN 0 ELSE Head(chunks).len + SumLen(Tail(chunks))

\* bytes_written of the range loop: the chunks written without an exception
bytes_written(w) == SumLen(SentBody(w))

\* the body writes attempted before the i-th
Before(w, i) == SubSeq(BodyWrites(w), 1, i - 1)

\* C14: in the body loop of the range streamer, whatever happens to the file
\* and to the connection meanwhile, each write is of 1 to 8192 bytes and of
\* no more than the bytes that remained when it was made; bytes_written +
\* remaining = content_length and bytes_written <= content_length at every
\* point of the loop; the loop goes on into a write only with remaining > 0
\* and a non-empty chunk; and it has stopped only with remaining = 0, on an
\* empty read with remaining > 0, or on a write that failed.
C14_RangeLoop ==
  \A w \in Active :
    local[w].stop # "none" =>
      /\ \A i \in 1..Len(BodyWrites(w)) :
           /\ BodyWrites(w)[i].len >= 1
           /\ BodyWrites(w)[i].len <= 8192
           /\ BodyWrites(w)[i].len <= local[w].content_length - SumLen(Before(w, i))
      /\ bytes_written(w) + local[w].remaining = local[w].content_length
      /\ bytes_written(w) <= local[w].content_length
      /\ local[w].remaining >= 0
      /\ (local[w].stop = "running") = (pc[w] \in {"range_loop", "range_write"})
      /\ local[w].stop # "running" => Done(w) /\ ~isopen[w]
      /\ pc[w] = "range_write" =>
           /\ local[w].remaining > 0
           /\ local[w].chunk.len >= 1
           /\ local[w].chunk.len <= local[w].remaining
           /\ local[w].chunk.len <= 8192
           /\ \A x \in Elems(BodyWrites(w)) : x.ok
      /\ local[w].stop = "complete" =>
           local[w].remaining = 0 /\ \A x \in Elems(BodyWrites(w)) : x.ok
      /\ local[w].stop = "eof" =>
           local[w].remaining > 0 /\ \A x \in Elems(BodyWrites(w)) : x.ok
      /\ local[w].stop = "disconnect" =>
           /\ BodyWrites(w) # <<>>
           /\ ~BodyWrites(w)[Len(BodyWrites(w))].ok
           /\ \A x \in Elems(Before(w, Len(BodyWrites(w)))) : x.ok
           /\ local[w].remaining > 0

\* a span of two chunks was cut short by the end of a file truncated under
\* the loop, after a first write
C14_Witness ==
  \E w \in Active :
    /\ local[w].stop = "eof"
    /\ local[w].content_length > 8192
    /\ bytes_written(w) >= 1
    /\ bytes_written(w) < local[w].content_length

\* C19 as stated: at most one status line and header block reaches the
\* client per request, also when the file cannot be opened after the 200 or
\* 206 headers have been written.
C19_OneStatusLine == \A w \in Active : Len(SentHeads(w)) <= 1

\* w has finished a 200 or 206 response for a file with no failed write and
\* no error response
FinishedFileResponse(w) ==
  /\ Done(w)
  /\ local[w].route \in {"file", "index"}
  /\ ~local[w].escaped
  /\ Len(Heads(w)) = 1
  /\ Heads(w)[1].status \in {200, 206}
  /\ \A x \in Elems(wire[w]) : x.ok

\* C20 as stated: a 200 or 206 response finished without a disconnect or an
\* error carries as many body bytes as its Content-Length says, also when
\* the file changes size between os.path.getsize and the reads.
C20_BodyMatchesLength ==
  \A w \in Active :
    FinishedFileResponse(w) => bytes_written(w) = Heads(w)[1].clen

\* C18: every handler run that has started eventually finishes, and by then
\* the file it opened is closed: both body loops terminate, whatever the
\* client does and however the file changes meanwhile.
C18_Terminates ==
  \A w \in Workers : (pc[w] # "idle") ~> (pc[w] = "done" /\ ~isopen[w])

\* the whole-file loop ran over a file of more than 1048576 bytes to its end
\* and the handler returned with the file closed
C18_Witness ==
  \E w \in Active :
    /\ Done(w)
    /\ ~isopen[w]
    /\ conn[w] = "open"
    /\ local[w].file_size > 1048576
    /\ bytes_written(w) >= local[w].file_size

====
